---- MODULE Spec2Model ----
(***************************************************************************)
(* A model of ext/drstatecmp/drstatecmp.c: the basic-block duplication     *)
(* transform, the save / restore / compare clean calls it inserts, the     *)
(* execution of the transformed block on one application thread, and the   *)
(* reference-counted module lifecycle (drstatecmp_init / drstatecmp_exit). *)
(* The register schema is the AARCHXX + X64 one of                         *)
(* drstatecmp_compare_state_call.                                          *)
(***************************************************************************)
EXTENDS Integers, Sequences, FiniteSets, TLC

VARIABLES
    \* ---- block finalisation and execution (one application thread) ----
    orig_block,              \* the block as handed to drstatecmp_post_instru_phase
    bb,                      \* the instrlist_t the callback mutates in place
    dup_bb,                  \* bb as drstatecmp_duplicate_bb left it (before the clean calls)
    labels,                  \* drstatecmp_dup_labels_t: positions of the labels in dup_bb
    phase,                   \* "bb_event", "exec", "done", "aborted", "crashed"
    pc,                      \* index in bb of the next instruction to execute
    start_mc,                \* machine state on entry to the block
    mc,                      \* live machine state of the thread
    saved_state_for_restore, \* pt->saved_state_for_restore
    saved_state_for_cmp,     \* pt->saved_state_for_cmp
    mc_expected,             \* local of drstatecmp_compare_state_call
    reported,                \* message of the failed DR_ASSERT_MSG, or "none"
    compared,                \* drstatecmp_compare_state_call has run
    orig_entry_mc,           \* live state when the ORIG_BB label was passed
    copy_runs,               \* number of times control passed the COPY_BB label
    exit_target,             \* where control went on leaving the block
    \* ---- module lifecycle ----
    drstatecmp_init_count,   \* static int drstatecmp_init_count
    tls_idx,                 \* static int tls_idx
    label_base,              \* static ptr_uint_t label_base
    registered,              \* what drmgr currently holds for this module
    drmgr_refs,              \* drmgr_init() calls not yet matched by drmgr_exit()
    debug_build,             \* DEBUG is defined
    last_call,               \* "none", "init", "exit"
    last_status,             \* drstatecmp_status_t returned by the last call
    last_effect,             \* "none", "register", "teardown": what the last call did
    n_register,              \* calls that entered the registration section
    n_teardown,              \* calls that entered the teardown section
    n_calls,                 \* lifecycle calls made so far
    step_failed,             \* some drmgr registration/unregistration step has failed
    users,                   \* per independent user: "idle", "in", "out"
    \* ---- concurrent callers and application threads ----
    callers,                 \* per calling thread: where it stands in drstatecmp_init/_exit
    threads,                 \* per application thread: its state, TLS field and machine state
    heap                     \* the memory dr_thread_alloc hands out, per address

blockVars == <<orig_block, bb, dup_bb, labels, phase, pc, start_mc, mc,
               saved_state_for_restore, saved_state_for_cmp, mc_expected,
               reported, compared, orig_entry_mc, copy_runs, exit_target>>

lifeVars == <<drstatecmp_init_count, tls_idx, label_base, registered, drmgr_refs,
              debug_build, last_call, last_status, last_effect, n_register,
              n_teardown, n_calls, step_failed, users>>

concVars == <<callers, threads, heap>>

vars == <<blockVars, lifeVars, concVars>>

(***************************************************************************)
(* Bounds of the model.                                                    *)
(***************************************************************************)
MaxLen == 3          \* instructions of a block before its terminator
MaxVal == 1          \* register values are 0..MaxVal (arithmetic wraps)
NumSimdSlots == 2    \* SIMD slots carried by the modelled dr_mcontext_t
MaxCalls == 6        \* lifecycle calls explored
NumUsers == 3        \* independent users of the module
NumCallers == 2      \* threads calling drstatecmp_init / drstatecmp_exit concurrently
NumThreads == 2      \* application threads running the transformed block

Vals == 0..MaxVal

(***************************************************************************)
(* dr_mcontext_t, AARCHXX + X64: the fields drstatecmp_compare_state_call  *)
(* reads, in the order it reads them.                                      *)
(***************************************************************************)
GprOrder ==
    << "r0", "r1", "r2", "r3", "r4", "r5", "r6", "r7", "r8", "r9", "r10",
       "r11", "r12", "r13", "r14", "r15", "r16", "r17", "r18", "r19", "r20",
       "r21", "r22", "r23", "r24", "r25", "r26", "r27", "r28", "r29", "lr" >>

GprNames == { GprOrder[i] : i \in 1..Len(GprOrder) }

SimdSlots == 0..(NumSimdSlots - 1)

\* memset(pt, 0, sizeof(*pt)) in drstatecmp_thread_init
ZeroMc ==
    [gpr |-> [r \in GprNames |-> 0], xflags |-> 0, xsp |-> 0,
     simd |-> [i \in SimdSlots |-> 0]]

(***************************************************************************)
(* Instructions.  app: instr_is_app; op: the opcode; dst/src: register     *)
(* operands ("" when absent); val: an immediate, a label's note or a clean *)
(* call's argument.                                                        *)
(***************************************************************************)
Instr(app, op, dst, src, val) ==
    [app |-> app, op |-> op, dst |-> dst, src |-> src, val |-> val]

\* application instructions that may stand before the terminator
AppBody ==
    { Instr(TRUE, "movi", "r1", "", MaxVal),   \* mov  r1, #imm
      Instr(TRUE, "inc", "r1", "r1", 1),       \* add  r1, r1, #1
      Instr(TRUE, "movr", "r2", "r1", 0),      \* mov  r2, r1
      Instr(TRUE, "cmp", "xflags", "r1", 0),   \* cmp  r1, #0
      Instr(TRUE, "str", "", "r1", 0) }        \* str  r1, [mem]

\* instrumentation (meta) instructions
MetaBody ==
    { Instr(FALSE, "nop", "", "", 0),          \* touches no register
      Instr(FALSE, "movi", "r1", "", 0) }      \* clobbers r1

\* control transfers and returns ending a block
Terminators ==
    { Instr(TRUE, "cbz", "", "r1", 0),         \* cbz  r1, target
      Instr(TRUE, "bl", "lr", "", 1),          \* bl   callee
      Instr(TRUE, "ret", "", "lr", 0) }        \* ret

instr_is_app(i) == i.app
instr_is_cti(i) == i.op \in {"cbz", "bl", "ret"}
instr_is_return(i) == i.op = "ret"
instr_writes_memory(i) == i.op = "str"
instr_is_interrupt(i) == i.op = "int"
instr_is_syscall(i) == i.op = "svc"

\* the effect of executing a non-transfer instruction on the machine state
ExecOp(i, m) ==
    CASE i.op = "movi" -> [m EXCEPT !.gpr[i.dst] = i.val]
      [] i.op = "inc"  -> [m EXCEPT !.gpr[i.dst] = (m.gpr[i.src] + i.val) % (MaxVal + 1)]
      [] i.op = "movr" -> [m EXCEPT !.gpr[i.dst] = m.gpr[i.src]]
      [] i.op = "cmp"  -> [m EXCEPT !.xflags = IF m.gpr[i.src] = i.val THEN 1 ELSE 0]
      [] i.op = "bl"   -> [m EXCEPT !.gpr[i.dst] = i.val]
      [] OTHER         -> m

\* where a control transfer sends control, given the state it executes in
Target(i, m) ==
    CASE i.op = "cbz" -> IF m.gpr[i.src] = 0 THEN "taken" ELSE "fallthrough"
      [] i.op = "bl"  -> "callee"
      [] i.op = "ret" -> "return"
      [] OTHER        -> "fallthrough"

(***************************************************************************)
(* instrlist_t as a sequence of instructions; an instr_t* is a position in *)
(* it (0 is NULL).                                                         *)
(***************************************************************************)
instrlist_preinsert(ilist, where, i) ==
    IF where = 0
    THEN Append(ilist, i)
    ELSE SubSeq(ilist, 1, where - 1) \o <<i>> \o SubSeq(ilist, where, Len(ilist))

instrlist_postinsert(ilist, where, i) ==
    IF where = 0
    THEN <<i>> \o ilist
    ELSE SubSeq(ilist, 1, where) \o <<i>> \o SubSeq(ilist, where + 1, Len(ilist))

instrlist_remove(ilist, where) ==
    SubSeq(ilist, 1, where - 1) \o SubSeq(ilist, where + 1, Len(ilist))

instrlist_first(ilist) == IF Len(ilist) = 0 THEN 0 ELSE 1

AppPositions(ilist) == { k \in 1..Len(ilist) : instr_is_app(ilist[k]) }

Max(S) == CHOOSE x \in S : \A y \in S : y <= x

Min(S) == CHOOSE x \in S : \A y \in S : x <= y

instrlist_last_app(ilist) ==
    IF AppPositions(ilist) = {} THEN 0 ELSE Max(AppPositions(ilist))

instrlist_first_app(ilist) ==
    IF AppPositions(ilist) = {} THEN 0 ELSE Min(AppPositions(ilist))

(***************************************************************************)
(* Labels.                                                                 *)
(***************************************************************************)
DRSTATECMP_LABEL_TERM == 0
DRSTATECMP_LABEL_ORIG_BB == 1
DRSTATECMP_LABEL_COPY_BB == 2
DRSTATECMP_LABEL_COUNT == 3

\* mutant: every label carries the same note value
M_LabelValIgnoresType(base, label_type) == base

get_label_val(base, label_type) == base + label_type

\* INSTR_CREATE_label + instr_set_meta + instr_set_note
Label(base, label_type) ==
    Instr(FALSE, "label", "", "", get_label_val(base, label_type))

match_label_val(i, base, label_type) ==
    i.op = "label" /\ i.val = get_label_val(base, label_type)

drstatecmp_insert_label(ilist, where, base, label_type, preinsert) ==
    IF preinsert
    THEN instrlist_preinsert(ilist, where, Label(base, label_type))
    ELSE instrlist_postinsert(ilist, where, Label(base, label_type))

drstatecmp_may_have_side_effects_instr(i) ==
    instr_writes_memory(i) \/ instr_is_interrupt(i) \/ instr_is_syscall(i)

(***************************************************************************)
(* The loop of drstatecmp_duplicate_bb that removes the instrumentation    *)
(* from the clone.  After instrlist_remove and instr_destroy the loop      *)
(* reads instr_get_next of the destroyed instruction; what that read       *)
(* yields is not determined by the program:                                *)
(*   "intact" - the link the instruction had while it was in the list,     *)
(*   "null"   - NULL (the link was cleared on removal): the loop ends,     *)
(*   "wild"   - neither: the walk leaves the list and the process faults.  *)
(***************************************************************************)
DanglingNext == {"intact", "null", "wild"}

RECURSIVE StripMeta(_, _, _)
StripMeta(copy_bb, at, dangling) ==
    IF at > Len(copy_bb)
    THEN [fault |-> FALSE, ilist |-> copy_bb]
    ELSE IF instr_is_app(copy_bb[at])
    THEN StripMeta(copy_bb, at + 1, dangling)
    ELSE CASE dangling = "intact" ->
                StripMeta(instrlist_remove(copy_bb, at), at, dangling)
           [] dangling = "null" ->
                [fault |-> FALSE, ilist |-> instrlist_remove(copy_bb, at)]
           [] OTHER ->
                [fault |-> TRUE, ilist |-> instrlist_remove(copy_bb, at)]

\* mutant: the TERM label always goes before the last application instruction
M_AlwaysPreinsert(term_inst) == TRUE

\* mutant: the terminator stays in the original copy
M_KeepsTerminator(term_inst) == FALSE

\* preinsert of lines 170-172
TermPreinsert(term_inst) == instr_is_cti(term_inst) \/ instr_is_return(term_inst)

\* the test of line 180
RemovesTerminator(term_inst) == instr_is_cti(term_inst) \/ instr_is_return(term_inst)

(***************************************************************************)
(* drstatecmp_duplicate_bb.  fault: the call did not return (a walk off a  *)
(* destroyed instruction, or instr_is_cti applied to the NULL that         *)
(* instrlist_last_app returns for a list without application instruction). *)
(***************************************************************************)
drstatecmp_duplicate_bb(block, base, dangling) ==
    LET stripped == StripMeta(block, 1, dangling)
        copy1 == stripped.ilist
        bb1 == drstatecmp_insert_label(block, instrlist_first(block), base,
                                       DRSTATECMP_LABEL_ORIG_BB, TRUE)
        copy2 == drstatecmp_insert_label(copy1, instrlist_first(copy1), base,
                                         DRSTATECMP_LABEL_COPY_BB, TRUE)
        term_inst_copy_bb == instrlist_last_app(copy2)
        term_inst == instrlist_last_app(bb1)
    IN  IF stripped.fault \/ term_inst_copy_bb = 0 \/ term_inst = 0
        THEN [fault |-> TRUE, ilist |-> block,
              labels |-> [orig_bb_start |-> 0, copy_bb_start |-> 0, term |-> 0]]
        ELSE LET preinsert == TermPreinsert(copy2[term_inst_copy_bb])
                 copy3 == drstatecmp_insert_label(copy2, term_inst_copy_bb, base,
                                                  DRSTATECMP_LABEL_TERM, preinsert)
                 bb2 == IF RemovesTerminator(bb1[term_inst])
                        THEN instrlist_remove(bb1, term_inst)
                        ELSE bb1
             IN  [fault |-> FALSE,
                  ilist |-> bb2 \o copy3,
                  labels |-> [orig_bb_start |-> 1,
                              copy_bb_start |-> Len(bb2) + 1,
                              term |-> Len(bb2) +
                                       (IF preinsert THEN term_inst_copy_bb
                                                     ELSE term_inst_copy_bb + 1)]]

(***************************************************************************)
(* The instr_t* values of lines 159-181 that are NULL when                 *)
(* drstatecmp_duplicate_bb uses them: the anchors handed to                *)
(* drstatecmp_insert_label and the arguments of instr_is_cti and           *)
(* instr_is_return.                                                        *)
(***************************************************************************)
AbsentInstrUses(block, base, dangling) ==
    LET copy1 == StripMeta(block, 1, dangling).ilist
        bb1 == drstatecmp_insert_label(block, instrlist_first(block), base,
                                       DRSTATECMP_LABEL_ORIG_BB, TRUE)
        copy2 == drstatecmp_insert_label(copy1, instrlist_first(copy1), base,
                                         DRSTATECMP_LABEL_COPY_BB, TRUE)
    IN  (IF instrlist_first(block) = 0 THEN {"instrlist_first(bb)"} ELSE {})
        \cup (IF instrlist_first(copy1) = 0 THEN {"instrlist_first(copy_bb)"} ELSE {})
        \cup (IF instrlist_last_app(copy2) = 0 THEN {"term_inst_copy_bb"} ELSE {})
        \cup (IF instrlist_last_app(bb1) = 0 THEN {"term_inst"} ELSE {})

(***************************************************************************)
(* The clean calls and drstatecmp_check_reexecution.                       *)
(***************************************************************************)
CleanCall(callee, arg) == Instr(FALSE, "call", callee, "", arg)

\* dr_insert_clean_call: the call goes immediately before `where`
dr_insert_clean_call(ilist, where, callee, arg) ==
    instrlist_preinsert(ilist, where, CleanCall(callee, arg))

drstatecmp_save_state(ilist, where, for_cmp) ==
    dr_insert_clean_call(ilist, where, "drstatecmp_save_state_call",
                         IF for_cmp THEN 1 ELSE 0)

drstatecmp_restore_state(ilist, where) ==
    dr_insert_clean_call(ilist, where, "drstatecmp_restore_state_call", 0)

drstatecmp_compare_state(ilist, where) ==
    dr_insert_clean_call(ilist, where, "drstatecmp_compare_state_call", 0)

\* the labels are instr_t pointers: an insertion before one of them moves it
\* and everything behind it one position on
drstatecmp_check_reexecution(ilist, lbl) ==
    LET l1 == drstatecmp_save_state(ilist, lbl.orig_bb_start, FALSE)
        l2 == drstatecmp_save_state(l1, lbl.copy_bb_start + 1, TRUE)
        l3 == drstatecmp_restore_state(l2, lbl.copy_bb_start + 2)
    IN  drstatecmp_compare_state(l3, lbl.term + 3)

\* mutant: the save call ignores its argument
M_SaveIgnoresFlag(for_cmp) == "saved_state_for_cmp"

\* mutant: the rollback applies the snapshot taken for comparison
M_RestoreFromCmp(for_restore, for_cmp) == for_cmp

\* which snapshot drstatecmp_save_state_call(for_cmp) writes
SaveSlot(for_cmp) == IF for_cmp # 0 THEN "saved_state_for_cmp"
                                    ELSE "saved_state_for_restore"

\* the snapshot drstatecmp_restore_state_call hands to dr_set_mcontext
RestoreSource(for_restore, for_cmp) == for_restore

(***************************************************************************)
(* drstatecmp_compare_state_call: the checks in source order.  A failed    *)
(* DR_ASSERT_MSG reports its message and aborts, so the first field that   *)
(* differs is the one reported.                                            *)
(***************************************************************************)
CmpChecks ==
    [k \in 1..Len(GprOrder) |-> [kind |-> "gpr", name |-> GprOrder[k], slot |-> 0]]
    \o << [kind |-> "xflags", name |-> "xflags", slot |-> 0],
          [kind |-> "xsp", name |-> "xsp", slot |-> 0] >>
    \o [k \in 1..NumSimdSlots |-> [kind |-> "simd", name |-> "SIMD mismatch", slot |-> k - 1]]

FieldOf(m, c) ==
    CASE c.kind = "gpr"    -> m.gpr[c.name]
      [] c.kind = "xflags" -> m.xflags
      [] c.kind = "xsp"    -> m.xsp
      [] OTHER             -> m.simd[c.slot]

RECURSIVE FirstFailedCheck(_, _, _)
FirstFailedCheck(mc_instrumented, expected, k) ==
    IF k > Len(CmpChecks) THEN "none"
    ELSE IF FieldOf(mc_instrumented, CmpChecks[k]) # FieldOf(expected, CmpChecks[k])
    THEN CmpChecks[k].name
    ELSE FirstFailedCheck(mc_instrumented, expected, k + 1)

\* mutant: the compare call reads the snapshot taken for restoration
M_CompareWithRestore(for_restore, for_cmp) == for_restore

\* the snapshot the compare call checks the live state against
mc_instrumented_of(for_restore, for_cmp) == for_cmp

drstatecmp_compare(for_restore, for_cmp, live) ==
    FirstFailedCheck(mc_instrumented_of(for_restore, for_cmp), live, 1)

(***************************************************************************)
(* Module lifecycle: drstatecmp_init and drstatecmp_exit.                  *)
(***************************************************************************)
DRMGR_NOTE_NONE == 0     \* what drmgr_reserve_note_range returns on failure
NoteBase == 1            \* the base of a reserved note range

AllRegistrations ==
    {"tls_field", "thread_init_event", "thread_exit_event", "bb_post_instru_event"}

Users == 1..NumUsers

\* mutant: the guard lets every init at a positive counter register
M_InitGuardBelowOne(count) == count < 1

\* line 465: init returns early unless it made the counter 1
InitReturnsEarly(count) == count # 1

\* mutant: the guard stops an exit only at a positive counter
M_ExitGuardPositive(count) == count > 0

\* mutant: every exit tears down
M_ExitAlwaysTearsDown(count) == FALSE

\* line 492: exit returns early unless it made the counter 0
ExitReturnsEarly(count) == count # 0

\* the process is alive (no ASSERT has aborted it)
Alive == last_status # "ABORT"

\* One call of drstatecmp_init().  The parameters are what the drmgr calls
\* answer: drmgr_register_tls_field, drmgr_reserve_note_range and the three
\* event registrations (evaluated left to right, stopping at the first failure).
drstatecmp_init(tls_ok, note_ok, ti_ok, te_ok, bb_ok) ==
    LET count == drstatecmp_init_count + 1
        withTls == registered \cup {"tls_field"}
        withTi == withTls \cup {"thread_init_event"}
        withTe == withTi \cup {"thread_exit_event"}
        withBb == withTe \cup {"bb_post_instru_event"}
    IN  /\ Alive
        /\ n_calls < MaxCalls
        /\ n_calls' = n_calls + 1
        /\ last_call' = "init"
        /\ drstatecmp_init_count' = count
        /\ UNCHANGED debug_build
        /\ IF InitReturnsEarly(count)
           THEN /\ last_status' = "DRSTATECMP_ERROR_ALREADY_INITIALIZED"
                /\ last_effect' = "none"
                /\ UNCHANGED <<tls_idx, label_base, registered, drmgr_refs,
                               n_register, n_teardown, step_failed>>
           ELSE /\ last_effect' = "register"
                /\ n_register' = n_register + 1
                /\ UNCHANGED n_teardown
                /\ drmgr_refs' = drmgr_refs + 1
                /\ tls_idx' = IF tls_ok THEN 0 ELSE -1
                /\ step_failed' = (step_failed \/ ~tls_ok \/ ~note_ok \/ ~ti_ok
                                   \/ (ti_ok /\ ~te_ok) \/ (ti_ok /\ te_ok /\ ~bb_ok))
                /\ IF ~tls_ok
                   THEN /\ last_status' = "DRSTATECMP_ERROR"
                        /\ UNCHANGED <<label_base, registered>>
                   ELSE /\ label_base' = IF note_ok THEN NoteBase ELSE DRMGR_NOTE_NONE
                        /\ IF ~note_ok /\ debug_build
                           THEN /\ last_status' = "ABORT"
                                /\ registered' = withTls
                           ELSE IF ~ti_ok
                           THEN /\ last_status' = "DRSTATECMP_ERROR"
                                /\ registered' = withTls
                           ELSE IF ~te_ok
                           THEN /\ last_status' = "DRSTATECMP_ERROR"
                                /\ registered' = withTi
                           ELSE IF ~bb_ok
                           THEN /\ last_status' = "DRSTATECMP_ERROR"
                                /\ registered' = withTe
                           ELSE /\ last_status' = "DRSTATECMP_SUCCESS"
                                /\ registered' = withBb

\* One call of drstatecmp_exit().  A drmgr unregistration succeeds exactly
\* when the thing is registered; the four are evaluated left to right,
\* stopping at the first failure.
drstatecmp_exit ==
    LET count == drstatecmp_init_count - 1
        ti_ok == "thread_init_event" \in registered
        te_ok == "thread_exit_event" \in registered
        tls_ok == "tls_field" \in registered
        bb_ok == "bb_post_instru_event" \in registered
        noTi == registered \ {"thread_init_event"}
        noTe == noTi \ {"thread_exit_event"}
        noTls == noTe \ {"tls_field"}
        noBb == noTls \ {"bb_post_instru_event"}
    IN  /\ Alive
        /\ n_calls < MaxCalls
        /\ n_calls' = n_calls + 1
        /\ last_call' = "exit"
        /\ drstatecmp_init_count' = count
        /\ UNCHANGED <<debug_build, tls_idx, label_base, n_register>>
        /\ IF ExitReturnsEarly(count)
           THEN /\ last_status' = "DRSTATECMP_ERROR_NOT_INITIALIZED"
                /\ last_effect' = "none"
                /\ UNCHANGED <<registered, drmgr_refs, n_teardown, step_failed>>
           ELSE /\ last_effect' = "teardown"
                /\ n_teardown' = n_teardown + 1
                /\ step_failed' = (step_failed \/ ~(ti_ok /\ te_ok /\ tls_ok /\ bb_ok))
                /\ IF ~ti_ok
                   THEN /\ last_status' = "DRSTATECMP_ERROR"
                        /\ UNCHANGED <<registered, drmgr_refs>>
                   ELSE IF ~te_ok
                   THEN /\ last_status' = "DRSTATECMP_ERROR"
                        /\ registered' = noTi
                        /\ UNCHANGED drmgr_refs
                   ELSE IF ~tls_ok
                   THEN /\ last_status' = "DRSTATECMP_ERROR"
                        /\ registered' = noTe
                        /\ UNCHANGED drmgr_refs
                   ELSE IF ~bb_ok
                   THEN /\ last_status' = "DRSTATECMP_ERROR"
                        /\ registered' = noTls
                        /\ UNCHANGED drmgr_refs
                   ELSE /\ last_status' = "DRSTATECMP_SUCCESS"
                        /\ registered' = noBb
                        /\ drmgr_refs' = drmgr_refs - 1

\* a call made by anybody, in any order
CallInit ==
    /\ \E tls_ok, note_ok, ti_ok, te_ok, bb_ok \in BOOLEAN :
           drstatecmp_init(tls_ok, note_ok, ti_ok, te_ok, bb_ok)
    /\ UNCHANGED <<users, blockVars, concVars>>

CallExit ==
    /\ drstatecmp_exit
    /\ UNCHANGED <<users, blockVars, concVars>>

\* independent users, each calling init once and later exit once
UserInit(u) ==
    /\ users[u] = "idle"
    /\ \E tls_ok, note_ok, ti_ok, te_ok, bb_ok \in BOOLEAN :
           drstatecmp_init(tls_ok, note_ok, ti_ok, te_ok, bb_ok)
    /\ users' = [users EXCEPT ![u] = "in"]
    /\ UNCHANGED <<blockVars, concVars>>

UserExit(u) ==
    /\ users[u] = "in"
    /\ drstatecmp_exit
    /\ users' = [users EXCEPT ![u] = "out"]
    /\ UNCHANGED <<blockVars, concVars>>

(***************************************************************************)
(* Block finalisation: drstatecmp_post_instru_phase.                       *)
(***************************************************************************)
\* mutant: the classifier loop visits every instruction of the block
M_ClassifiesEveryInstr(block) ==
    \A k \in 1..Len(block) : ~drstatecmp_may_have_side_effects_instr(block[k])

\* the classifier loop of lines 413-420, over the application instructions
SideEffectFree(block) ==
    \A k \in AppPositions(block) : ~drstatecmp_may_have_side_effects_instr(block[k])

NoLabels == [orig_bb_start |-> 0, copy_bb_start |-> 0, term |-> 0]

ghostVars == <<orig_block, start_mc, mc, saved_state_for_restore,
               saved_state_for_cmp, mc_expected, reported, compared,
               orig_entry_mc, copy_runs, exit_target>>

\* drstatecmp_post_process_side_effect_free_bb
PostProcessSideEffectFree ==
    /\ phase = "bb_event"
    /\ SideEffectFree(bb)
    /\ \E dangling \in DanglingNext :
         LET dup == drstatecmp_duplicate_bb(bb, label_base, dangling)
         IN  IF dup.fault
             THEN /\ phase' = "crashed"
                  /\ UNCHANGED <<bb, dup_bb, labels, pc>>
             ELSE /\ dup_bb' = dup.ilist
                  /\ labels' = dup.labels
                  /\ bb' = drstatecmp_check_reexecution(dup.ilist, dup.labels)
                  /\ phase' = "exec"
                  /\ pc' = 1
    /\ UNCHANGED <<ghostVars, lifeVars, concVars>>

\* drstatecmp_post_process_bb_with_side_effects: the block is left alone
PostProcessWithSideEffects ==
    /\ phase = "bb_event"
    /\ ~SideEffectFree(bb)
    /\ phase' = "exec"
    /\ pc' = 1
    /\ UNCHANGED <<bb, dup_bb, labels, ghostVars, lifeVars, concVars>>

(***************************************************************************)
(* Execution of the finalised block by the application thread.             *)
(***************************************************************************)
AtInstr == phase = "exec" /\ pc <= Len(bb)

AtCall(callee) == AtInstr /\ bb[pc].op = "call" /\ bb[pc].dst = callee

drstatecmp_save_state_call ==
    /\ AtCall("drstatecmp_save_state_call")
    /\ IF SaveSlot(bb[pc].val) = "saved_state_for_cmp"
       THEN saved_state_for_cmp' = mc /\ UNCHANGED saved_state_for_restore
       ELSE saved_state_for_restore' = mc /\ UNCHANGED saved_state_for_cmp
    /\ pc' = pc + 1
    /\ UNCHANGED <<orig_block, bb, dup_bb, labels, phase, start_mc, mc, mc_expected,
                   reported, compared, orig_entry_mc, copy_runs, exit_target, lifeVars, concVars>>

drstatecmp_restore_state_call ==
    /\ AtCall("drstatecmp_restore_state_call")
    /\ mc' = RestoreSource(saved_state_for_restore, saved_state_for_cmp)
    /\ pc' = pc + 1
    /\ UNCHANGED <<orig_block, bb, dup_bb, labels, phase, start_mc,
                   saved_state_for_restore, saved_state_for_cmp, mc_expected,
                   reported, compared, orig_entry_mc, copy_runs, exit_target, lifeVars, concVars>>

drstatecmp_compare_state_call ==
    /\ AtCall("drstatecmp_compare_state_call")
    /\ mc_expected' = mc
    /\ compared' = TRUE
    /\ reported' = drstatecmp_compare(saved_state_for_restore, saved_state_for_cmp, mc)
    /\ IF reported' = "none"
       THEN phase' = "exec" /\ pc' = pc + 1
       ELSE phase' = "aborted" /\ pc' = pc
    /\ UNCHANGED <<orig_block, bb, dup_bb, labels, start_mc, mc,
                   saved_state_for_restore, saved_state_for_cmp,
                   orig_entry_mc, copy_runs, exit_target, lifeVars, concVars>>

\* a label emits no code; control passes it
PassLabel ==
    /\ AtInstr
    /\ bb[pc].op = "label"
    /\ orig_entry_mc' = IF match_label_val(bb[pc], label_base, DRSTATECMP_LABEL_ORIG_BB)
                        THEN mc ELSE orig_entry_mc
    /\ copy_runs' = IF match_label_val(bb[pc], label_base, DRSTATECMP_LABEL_COPY_BB)
                    THEN copy_runs + 1 ELSE copy_runs
    /\ pc' = pc + 1
    /\ UNCHANGED <<orig_block, bb, dup_bb, labels, phase, start_mc, mc,
                   saved_state_for_restore, saved_state_for_cmp, mc_expected,
                   reported, compared, exit_target, lifeVars, concVars>>

\* an application or instrumentation instruction that is no control transfer
ExecInstr ==
    /\ AtInstr
    /\ bb[pc].op \notin {"label", "call"}
    /\ ~instr_is_cti(bb[pc])
    /\ mc' = ExecOp(bb[pc], mc)
    /\ pc' = pc + 1
    /\ UNCHANGED <<orig_block, bb, dup_bb, labels, phase, start_mc,
                   saved_state_for_restore, saved_state_for_cmp, mc_expected,
                   reported, compared, orig_entry_mc, copy_runs, exit_target, lifeVars, concVars>>

\* a control transfer or return leaves the block
ExecTransfer ==
    /\ AtInstr
    /\ instr_is_cti(bb[pc])
    /\ mc' = ExecOp(bb[pc], mc)
    /\ exit_target' = Target(bb[pc], mc)
    /\ phase' = "done"
    /\ UNCHANGED <<orig_block, bb, dup_bb, labels, pc, start_mc,
                   saved_state_for_restore, saved_state_for_cmp, mc_expected,
                   reported, compared, orig_entry_mc, copy_runs, lifeVars, concVars>>

\* control runs off the end of the block to the next address
FallThrough ==
    /\ phase = "exec"
    /\ pc > Len(bb)
    /\ exit_target' = "fallthrough"
    /\ phase' = "done"
    /\ UNCHANGED <<orig_block, bb, dup_bb, labels, pc, start_mc, mc,
                   saved_state_for_restore, saved_state_for_cmp, mc_expected,
                   reported, compared, orig_entry_mc, copy_runs, lifeVars, concVars>>

(***************************************************************************)
(* drstatecmp_init and drstatecmp_exit called by several threads at once.  *)
(* The update of drstatecmp_init_count is one atomic step (dr_atomic_add32 *)
(* _return_sum); the test of the local count and every call into drmgr are *)
(* steps of their own, and the module takes no lock around them.  Every    *)
(* drmgr registration succeeds; an unregistration succeeds exactly when    *)
(* the thing is registered.                                                *)
(***************************************************************************)
Callers == 1..NumCallers

\* at: "idle", "init_guard", "registering", "exit_guard", "unregistering";
\* step: the next drmgr call of the sequence; count: the local of that name;
\* status: what the caller's last call returned
IdleCaller == [at |-> "idle", step |-> 0, count |-> 0, status |-> "none"]

\* the calls of lines 472-482, in order (drmgr_init goes with the first)
InitOrder ==
    << "tls_field", "label_init", "thread_init_event", "thread_exit_event",
       "bb_post_instru_event" >>

\* the calls of lines 495-501, in order
ExitOrder ==
    << "thread_init_event", "thread_exit_event", "tls_field",
       "bb_post_instru_event", "drmgr_exit" >>

Returned(p, call, status, effect) ==
    /\ callers' = [callers EXCEPT ![p] = [IdleCaller EXCEPT !.status = status]]
    /\ last_call' = call
    /\ last_status' = status
    /\ last_effect' = effect

\* line 464
InitAdd(p) ==
    /\ Alive
    /\ callers[p].at = "idle"
    /\ n_calls < MaxCalls
    /\ n_calls' = n_calls + 1
    /\ drstatecmp_init_count' = drstatecmp_init_count + 1
    /\ callers' = [callers EXCEPT ![p].at = "init_guard",
                                  ![p].count = drstatecmp_init_count + 1]
    /\ UNCHANGED <<tls_idx, label_base, registered, drmgr_refs, debug_build,
                   last_call, last_status, last_effect, n_register, n_teardown,
                   step_failed, users, blockVars, threads, heap>>

\* lines 465-466
InitGuard(p) ==
    /\ callers[p].at = "init_guard"
    /\ IF InitReturnsEarly(callers[p].count)
       THEN /\ Returned(p, "init", "DRSTATECMP_ERROR_ALREADY_INITIALIZED", "none")
            /\ UNCHANGED n_register
       ELSE /\ callers' = [callers EXCEPT ![p].at = "registering", ![p].step = 1]
            /\ n_register' = n_register + 1
            /\ UNCHANGED <<last_call, last_status, last_effect>>
    /\ UNCHANGED <<drstatecmp_init_count, tls_idx, label_base, registered, drmgr_refs,
                   debug_build, n_teardown, n_calls, step_failed, users, blockVars,
                   threads, heap>>

\* one of lines 472-482; the last one is followed by the return of line 485
InitRegister(p) ==
    /\ callers[p].at = "registering"
    /\ LET what == InitOrder[callers[p].step]
       IN  /\ registered' = IF what = "label_init" THEN registered
                                                   ELSE registered \cup {what}
           /\ label_base' = IF what = "label_init" THEN NoteBase ELSE label_base
           /\ tls_idx' = IF what = "tls_field" THEN 0 ELSE tls_idx
           /\ drmgr_refs' = IF what = "tls_field" THEN drmgr_refs + 1 ELSE drmgr_refs
    /\ IF callers[p].step = Len(InitOrder)
       THEN Returned(p, "init", "DRSTATECMP_SUCCESS", "register")
       ELSE /\ callers' = [callers EXCEPT ![p].step = @ + 1]
            /\ UNCHANGED <<last_call, last_status, last_effect>>
    /\ UNCHANGED <<drstatecmp_init_count, debug_build, n_register, n_teardown,
                   n_calls, step_failed, users, blockVars, threads, heap>>

\* line 491
ExitAdd(p) ==
    /\ Alive
    /\ callers[p].at = "idle"
    /\ n_calls < MaxCalls
    /\ n_calls' = n_calls + 1
    /\ drstatecmp_init_count' = drstatecmp_init_count - 1
    /\ callers' = [callers EXCEPT ![p].at = "exit_guard",
                                  ![p].count = drstatecmp_init_count - 1]
    /\ UNCHANGED <<tls_idx, label_base, registered, drmgr_refs, debug_build,
                   last_call, last_status, last_effect, n_register, n_teardown,
                   step_failed, users, blockVars, threads, heap>>

\* lines 492-493
ExitGuard(p) ==
    /\ callers[p].at = "exit_guard"
    /\ IF ExitReturnsEarly(callers[p].count)
       THEN /\ Returned(p, "exit", "DRSTATECMP_ERROR_NOT_INITIALIZED", "none")
            /\ UNCHANGED n_teardown
       ELSE /\ callers' = [callers EXCEPT ![p].at = "unregistering", ![p].step = 1]
            /\ n_teardown' = n_teardown + 1
            /\ UNCHANGED <<last_call, last_status, last_effect>>
    /\ UNCHANGED <<drstatecmp_init_count, tls_idx, label_base, registered, drmgr_refs,
                   debug_build, n_register, n_calls, step_failed, users, blockVars,
                   threads, heap>>

\* one of lines 495-501; a failed unregistration returns at line 499
ExitUnregister(p) ==
    /\ callers[p].at = "unregistering"
    /\ LET what == ExitOrder[callers[p].step]
       IN  IF what = "drmgr_exit"
           THEN /\ drmgr_refs' = drmgr_refs - 1
                /\ Returned(p, "exit", "DRSTATECMP_SUCCESS", "teardown")
                /\ UNCHANGED <<registered, step_failed>>
           ELSE IF what \in registered
           THEN /\ registered' = registered \ {what}
                /\ callers' = [callers EXCEPT ![p].step = @ + 1]
                /\ UNCHANGED <<drmgr_refs, step_failed, last_call, last_status,
                               last_effect>>
           ELSE /\ step_failed' = TRUE
                /\ Returned(p, "exit", "DRSTATECMP_ERROR", "teardown")
                /\ UNCHANGED <<registered, drmgr_refs>>
    /\ UNCHANGED <<drstatecmp_init_count, tls_idx, label_base, debug_build,
                   n_register, n_teardown, n_calls, users, blockVars, threads, heap>>

(***************************************************************************)
(* Application threads.  drmgr calls drstatecmp_thread_init in a new       *)
(* thread and drstatecmp_thread_exit in a leaving one; between the two the *)
(* thread runs the transformed block ThreadCode out of the shared code     *)
(* cache, its clean calls finding the thread's pair of snapshots through   *)
(* the thread's own drcontext.                                             *)
(***************************************************************************)
Threads == 1..NumThreads

\* addresses dr_thread_alloc may return (0 is NULL)
Addrs == 1..NumThreads

\* a drstatecmp_saved_states at some address; allocated: not yet freed
FreeMem ==
    [allocated |-> FALSE, saved_state_for_restore |-> ZeroMc,
     saved_state_for_cmp |-> ZeroMc]

\* memset(pt, 0, sizeof(*pt))
ZeroPair ==
    [allocated |-> TRUE, saved_state_for_restore |-> ZeroMc,
     saved_state_for_cmp |-> ZeroMc]

\* the block every thread runs: two application instructions, transformed
ThreadBody ==
    << Instr(TRUE, "inc", "r1", "r1", 1), Instr(TRUE, "movr", "r2", "r1", 0) >>

ThreadCode ==
    LET dup == drstatecmp_duplicate_bb(ThreadBody, NoteBase, "intact")
    IN  drstatecmp_check_reexecution(dup.ilist, dup.labels)

\* the machine state a thread enters the block with: r1 differs between threads
ThreadStart(t) ==
    [ZeroMc EXCEPT !.gpr["r1"] = t % (MaxVal + 1), !.xsp = MaxVal]

\* state: "unborn", "running", "exited", "aborted"; pt: the thread's TLS field;
\* wrote: what the thread's own save calls stored; read: the snapshot its
\* compare call used; frees: dr_thread_free calls made for the thread
UnbornThread(t) ==
    [state |-> "unborn", pc |-> 0, mc |-> ThreadStart(t), pt |-> 0,
     wrote |-> ZeroPair, read |-> ZeroMc, reported |-> "none", frees |-> 0]

\* mutant: the TLS field of the first running thread, whoever asks
M_TlsFieldOfFirstThread(drcontext) ==
    IF threads[1].state = "running" THEN threads[1].pt ELSE threads[drcontext].pt

\* drmgr_get_tls_field(drcontext, tls_idx): the field of the asking thread
drmgr_get_tls_field(drcontext) == threads[drcontext].pt

ThreadAt(t) ==
    /\ \A u \in Threads : threads[u].state # "aborted"
    /\ threads[t].state = "running"
    /\ threads[t].pc <= Len(ThreadCode)

ThreadAtCall(t, callee) ==
    /\ ThreadAt(t)
    /\ ThreadCode[threads[t].pc].op = "call"
    /\ ThreadCode[threads[t].pc].dst = callee

drstatecmp_thread_init(t) ==
    /\ threads[t].state = "unborn"
    /\ "thread_init_event" \in registered
    /\ \E pt \in Addrs :
         /\ ~heap[pt].allocated
         /\ heap' = [heap EXCEPT ![pt] = ZeroPair]
         /\ threads' = [threads EXCEPT ![t].state = "running", ![t].pc = 1,
                                       ![t].pt = pt]
    /\ UNCHANGED <<blockVars, lifeVars, callers>>

drstatecmp_thread_exit(t) ==
    /\ threads[t].state = "running"
    /\ threads[t].pc = 1 \/ threads[t].pc > Len(ThreadCode)
    /\ "thread_exit_event" \in registered
    /\ LET pt == drmgr_get_tls_field(t)
       IN  IF pt = 0
           THEN /\ threads' = [threads EXCEPT ![t].state =
                                   IF debug_build THEN "aborted" ELSE "exited"]
                /\ UNCHANGED heap
           ELSE /\ heap' = [heap EXCEPT ![pt].allocated = FALSE]
                /\ threads' = [threads EXCEPT ![t].state = "exited",
                                              ![t].frees = @ + 1]
    /\ UNCHANGED <<blockVars, lifeVars, callers>>

ThreadSave(t) ==
    /\ ThreadAtCall(t, "drstatecmp_save_state_call")
    /\ LET pt == drmgr_get_tls_field(t)
           slot == SaveSlot(ThreadCode[threads[t].pc].val)
       IN  /\ heap' = [heap EXCEPT ![pt][slot] = threads[t].mc]
           /\ threads' = [threads EXCEPT ![t].pc = @ + 1,
                                         ![t].wrote[slot] = threads[t].mc]
    /\ UNCHANGED <<blockVars, lifeVars, callers>>

ThreadRestore(t) ==
    /\ ThreadAtCall(t, "drstatecmp_restore_state_call")
    /\ LET pt == drmgr_get_tls_field(t)
       IN  threads' = [threads EXCEPT
               ![t].pc = @ + 1,
               ![t].mc = RestoreSource(heap[pt].saved_state_for_restore,
                                       heap[pt].saved_state_for_cmp)]
    /\ UNCHANGED <<blockVars, lifeVars, callers, heap>>

ThreadCompare(t) ==
    /\ ThreadAtCall(t, "drstatecmp_compare_state_call")
    /\ LET pt == drmgr_get_tls_field(t)
           found == drstatecmp_compare(heap[pt].saved_state_for_restore,
                                       heap[pt].saved_state_for_cmp, threads[t].mc)
       IN  threads' = [threads EXCEPT
               ![t].pc = @ + 1,
               ![t].read = mc_instrumented_of(heap[pt].saved_state_for_restore,
                                              heap[pt].saved_state_for_cmp),
               ![t].reported = found,
               ![t].state = IF found = "none" THEN "running" ELSE "aborted"]
    /\ UNCHANGED <<blockVars, lifeVars, callers, heap>>

\* a label or an application instruction of the block
ThreadExec(t) ==
    /\ ThreadAt(t)
    /\ ThreadCode[threads[t].pc].op # "call"
    /\ threads' = [threads EXCEPT
           ![t].pc = @ + 1,
           ![t].mc = ExecOp(ThreadCode[threads[t].pc], threads[t].mc)]
    /\ UNCHANGED <<blockVars, lifeVars, callers, heap>>

\* no call in progress, no application thread started, nothing allocated
NoneRunning ==
    /\ callers = [p \in Callers |-> IdleCaller]
    /\ threads = [t \in Threads |-> UnbornThread(t)]
    /\ heap = [a \in Addrs |-> FreeMem]

(***************************************************************************)
(* Initial states and specifications.                                      *)
(***************************************************************************)
BodyInstrs == AppBody \cup MetaBody

Bodies == UNION { [1..n -> BodyInstrs] : n \in 0..MaxLen }

\* a block ends at its control transfer, if it has one
Blocks == Bodies \cup { Append(b, t) : b \in Bodies, t \in Terminators }

\* entry states of the block: r1 takes every value, r2 the two extreme ones
StartStates ==
    { [ZeroMc EXCEPT !.gpr["r1"] = a, !.gpr["r2"] = b, !.xsp = MaxVal] :
          a \in Vals, b \in {0, MaxVal} }

\* the module initialised once, all registrations in place
LifeRegistered ==
    /\ drstatecmp_init_count = 1
    /\ tls_idx = 0
    /\ label_base = NoteBase
    /\ registered = AllRegistrations
    /\ drmgr_refs = 1
    /\ last_call = "init"
    /\ last_status = "DRSTATECMP_SUCCESS"
    /\ last_effect = "register"
    /\ n_register = 1
    /\ n_teardown = 0
    /\ n_calls = 1
    /\ step_failed = FALSE
    /\ users = [u \in Users |-> "idle"]
    /\ NoneRunning

\* the module as loaded: nothing registered yet
LifeFresh ==
    /\ drstatecmp_init_count = 0
    /\ tls_idx = -1
    /\ label_base = 0
    /\ registered = {}
    /\ drmgr_refs = 0
    /\ last_call = "none"
    /\ last_status = "none"
    /\ last_effect = "none"
    /\ n_register = 0
    /\ n_teardown = 0
    /\ n_calls = 0
    /\ step_failed = FALSE
    /\ users = [u \in Users |-> "idle"]
    /\ NoneRunning

BlockAt(block, m) ==
    /\ orig_block = block
    /\ bb = block
    /\ dup_bb = <<>>
    /\ labels = NoLabels
    /\ phase = "bb_event"
    /\ pc = 0
    /\ start_mc = m
    /\ mc = m
    /\ saved_state_for_restore = ZeroMc
    /\ saved_state_for_cmp = ZeroMc
    /\ mc_expected = ZeroMc
    /\ reported = "none"
    /\ compared = FALSE
    /\ orig_entry_mc = ZeroMc
    /\ copy_runs = 0
    /\ exit_target = "none"

\* a block is finalised and then executed once by a thread whose saved-state
\* pair drstatecmp_thread_init has zero-filled.  DEBUG is read only by ASSERT
\* (drstatecmp_label_init, drstatecmp_thread_exit), which does not run here.
Init ==
    /\ debug_build = FALSE
    /\ LifeRegistered
    /\ \E block \in Blocks, m \in StartStates : BlockAt(block, m)

Next ==
    \/ PostProcessSideEffectFree
    \/ PostProcessWithSideEffects
    \/ drstatecmp_save_state_call
    \/ drstatecmp_restore_state_call
    \/ drstatecmp_compare_state_call
    \/ PassLabel
    \/ ExecInstr
    \/ ExecTransfer
    \/ FallThrough

Spec == Init /\ [][Next]_vars

\* any sequence of drstatecmp_init and drstatecmp_exit calls
LifeInit ==
    /\ debug_build \in BOOLEAN
    /\ LifeFresh
    /\ BlockAt(<<>>, ZeroMc)

LifeNext == CallInit \/ CallExit

LifeSpec == LifeInit /\ [][LifeNext]_vars

\* NumUsers users, each calling init once and later exit once
UsersNext == \E u \in Users : UserInit(u) \/ UserExit(u)

UsersSpec == LifeInit /\ [][UsersNext]_vars

(***************************************************************************)
(* The compare call on its own: drstatecmp_compare_state_call reached with *)
(* any snapshot taken for comparison and any live state that differ from   *)
(* the zero state in at most one field each (so from each other in at most *)
(* two).                                                                   *)
(***************************************************************************)
OneFieldStates ==
    {ZeroMc}
    \cup { [ZeroMc EXCEPT !.gpr[r] = v] : r \in GprNames, v \in Vals }
    \cup { [ZeroMc EXCEPT !.xflags = v] : v \in Vals }
    \cup { [ZeroMc EXCEPT !.xsp = v] : v \in Vals }
    \cup { [ZeroMc EXCEPT !.simd[i] = v] : i \in SimdSlots, v \in Vals }

CmpInit ==
    /\ debug_build = FALSE
    /\ LifeRegistered
    /\ orig_block = <<>>
    /\ bb = <<CleanCall("drstatecmp_compare_state_call", 0)>>
    /\ dup_bb = <<>>
    /\ labels = NoLabels
    /\ phase = "exec"
    /\ pc = 1
    /\ start_mc = ZeroMc
    /\ mc \in OneFieldStates
    /\ saved_state_for_restore = ZeroMc
    /\ saved_state_for_cmp \in OneFieldStates
    /\ mc_expected = ZeroMc
    /\ reported = "none"
    /\ compared = FALSE
    /\ orig_entry_mc = ZeroMc
    /\ copy_runs = 0
    /\ exit_target = "none"

CmpNext == drstatecmp_compare_state_call \/ FallThrough

CmpSpec == CmpInit /\ [][CmpNext]_vars

(***************************************************************************)
(* The callback alone, drstatecmp_post_instru_phase, over blocks in which  *)
(* application and instrumentation instructions may write memory, raise an *)
(* interrupt or make a system call.                                        *)
(***************************************************************************)
GateInstrs ==
    { Instr(TRUE, "movi", "r1", "", MaxVal),   \* mov  r1, #imm
      Instr(TRUE, "str", "", "r1", 0),         \* str  r1, [mem]
      Instr(TRUE, "int", "", "", 0),           \* an interrupt
      Instr(TRUE, "svc", "", "", 0),           \* svc  #0
      Instr(FALSE, "nop", "", "", 0),          \* meta, touches nothing
      Instr(FALSE, "str", "", "r1", 0),        \* meta str r1, [mem]
      Instr(FALSE, "svc", "", "", 0) }         \* meta svc #0

GateBodies == UNION { [1..n -> GateInstrs] : n \in 0..MaxLen }

GateBlocks ==
    GateBodies \cup { Append(b, Instr(TRUE, "cbz", "", "r1", 0)) : b \in GateBodies }

GateInit ==
    /\ debug_build = FALSE
    /\ LifeRegistered
    /\ \E block \in GateBlocks : BlockAt(block, ZeroMc)

GateNext == PostProcessSideEffectFree \/ PostProcessWithSideEffects

GateSpec == GateInit /\ [][GateNext]_vars

(***************************************************************************)
(* NumCallers threads, each making drstatecmp_init and drstatecmp_exit     *)
(* calls in any order, the steps of their calls interleaved.               *)
(***************************************************************************)
ConcInit ==
    /\ debug_build = FALSE
    /\ LifeFresh
    /\ BlockAt(<<>>, ZeroMc)

ConcNext ==
    \E p \in Callers :
        \/ InitAdd(p)
        \/ InitGuard(p)
        \/ InitRegister(p)
        \/ ExitAdd(p)
        \/ ExitGuard(p)
        \/ ExitUnregister(p)

ConcSpec == ConcInit /\ [][ConcNext]_vars

(***************************************************************************)
(* NumThreads application threads starting, running the transformed block  *)
(* and leaving, in any interleaving, while the module is registered.       *)
(***************************************************************************)
ThreadInit ==
    /\ debug_build \in BOOLEAN
    /\ LifeRegistered
    /\ BlockAt(ThreadBody, ZeroMc)

ThreadNext ==
    \E t \in Threads :
        \/ drstatecmp_thread_init(t)
        \/ drstatecmp_thread_exit(t)
        \/ ThreadSave(t)
        \/ ThreadRestore(t)
        \/ ThreadCompare(t)
        \/ ThreadExec(t)

ThreadSpec == ThreadInit /\ [][ThreadNext]_vars

(***************************************************************************)
(* Reference semantics used by the properties: the state a list of         *)
(* instructions produces when executed in order from a given state.        *)
(***************************************************************************)
RECURSIVE RunFrom(_, _, _)
RunFrom(ilist, k, m) ==
    IF k > Len(ilist) THEN m ELSE RunFrom(ilist, k + 1, ExecOp(ilist[k], m))

Run(ilist, m) == RunFrom(ilist, 1, m)

SelectApp(ilist) == SelectSeq(ilist, instr_is_app)

HasTerminator(block) ==
    /\ instrlist_last_app(block) # 0
    /\ LET t == block[instrlist_last_app(block)]
       IN  instr_is_cti(t) \/ instr_is_return(t)

FallsThrough(block) ==
    /\ instrlist_last_app(block) # 0
    /\ ~HasTerminator(block)

Terminator(block) == block[instrlist_last_app(block)]

\* the block without its terminator
BodyOf(block) ==
    IF HasTerminator(block) THEN instrlist_remove(block, instrlist_last_app(block))
                            ELSE block

NoInstrumentation(block) == \A k \in 1..Len(block) : instr_is_app(block[k])

\* the block was duplicated and the clean calls were inserted
Transformed == phase \in {"exec", "done", "aborted"} /\ SideEffectFree(orig_block)

CtiPositions(ilist) == { k \in 1..Len(ilist) : instr_is_cti(ilist[k]) }

CallPositions(ilist, callee) ==
    { k \in 1..Len(ilist) : ilist[k].op = "call" /\ ilist[k].dst = callee }

LabelPositions(ilist, label_type) ==
    { k \in 1..Len(ilist) : match_label_val(ilist[k], label_base, label_type) }

(***************************************************************************)
(* C1  Transparency.  When a side-effect-free block without any            *)
(* instrumentation has been transformed and executed, the execution ends   *)
(* normally (no mismatch is reported) and the register, flag, vector and   *)
(* stack-pointer values are those that executing the untransformed block   *)
(* from the same entry state produces.                                     *)
(***************************************************************************)
C1_Transparency ==
    (Transformed /\ NoInstrumentation(orig_block) /\ phase \in {"done", "aborted"})
        => /\ phase = "done"
           /\ mc = Run(orig_block, start_mc)

C1_Witness ==
    /\ Transformed
    /\ NoInstrumentation(orig_block)
    /\ phase = "done"
    /\ copy_runs = 1
    /\ \E k \in 1..Len(orig_block) : orig_block[k].op = "inc"
    /\ mc # start_mc

(***************************************************************************)
(* C2  No false alarm.  When the instrumentation of a side-effect-free     *)
(* block writes no register, flag, vector register or stack pointer, the   *)
(* compare call finds every compared field of saved_state_for_cmp equal to *)
(* the live state and reports no mismatch.                                 *)
(***************************************************************************)
WritesNoRegister(i) == i.dst = ""

QuietInstrumentation(block) ==
    \A k \in 1..Len(block) : ~instr_is_app(block[k]) => WritesNoRegister(block[k])

C2_NoFalseAlarm ==
    (Transformed /\ QuietInstrumentation(orig_block) /\ compared)
        => /\ reported = "none"
           /\ \A k \in 1..Len(CmpChecks) :
                  FieldOf(saved_state_for_cmp, CmpChecks[k]) = FieldOf(mc_expected, CmpChecks[k])

C2_Witness ==
    /\ Transformed
    /\ QuietInstrumentation(orig_block)
    /\ ~NoInstrumentation(orig_block)
    /\ compared
    /\ reported = "none"
    /\ mc_expected # start_mc

(***************************************************************************)
(* C3  Clobber detection.  When the instrumentation of a side-effect-free  *)
(* block clobbers one general-purpose register r, that is, the state the   *)
(* instrumented instructions produce differs from the state the            *)
(* application instructions alone produce in r and in nothing else, the    *)
(* compare call reports a mismatch and names r.                            *)
(***************************************************************************)
InstrumentedEnd == Run(BodyOf(orig_block), start_mc)

CleanEnd == Run(SelectApp(BodyOf(orig_block)), start_mc)

\* the one general-purpose register in which a differs from b, or "none"
\* when they are equal or differ in more than one field
ClobberedGpr(a, b) ==
    LET D == { r \in GprNames : a.gpr[r] # b.gpr[r] }
    IN  IF Cardinality(D) = 1 /\ a = [b EXCEPT !.gpr = a.gpr]
        THEN CHOOSE r \in D : TRUE
        ELSE "none"

C3_ClobberDetection ==
    (Transformed /\ phase \in {"done", "aborted"})
        => LET r == ClobberedGpr(InstrumentedEnd, CleanEnd)
           IN  r # "none" => (compared /\ reported = r)

(***************************************************************************)
(* C4  Rollback.  Whenever control stands at the first instruction of the  *)
(* clean copy (just behind the COPY_BB label), the live machine state is   *)
(* the one the thread had when it entered the original copy, whatever the  *)
(* original copy and its instrumentation did.                              *)
(***************************************************************************)
AtCleanCopyStart ==
    /\ Transformed
    /\ phase = "exec"
    /\ pc > 1
    /\ pc - 1 <= Len(bb)
    /\ match_label_val(bb[pc - 1], label_base, DRSTATECMP_LABEL_COPY_BB)

C4_Rollback == AtCleanCopyStart => mc = orig_entry_mc

C4_Witness ==
    /\ AtCleanCopyStart
    /\ ~NoInstrumentation(orig_block)
    /\ saved_state_for_cmp # orig_entry_mc
    /\ orig_entry_mc = start_mc
    /\ mc = start_mc

(***************************************************************************)
(* C5  Terminated block.  For a side-effect-free block ending in a control *)
(* transfer or return T, the transformed block holds exactly one control   *)
(* transfer, it is T and it is the last instruction; the original copy     *)
(* (everything before the COPY_BB label) holds none; and an execution that *)
(* leaves the block has passed through the clean copy exactly once and     *)
(* left through T, towards the target T selects in the state the clean     *)
(* copy produced.                                                          *)
(***************************************************************************)
C5_TerminatedBlock ==
    (Transformed /\ HasTerminator(orig_block))
        => /\ Cardinality(CtiPositions(bb)) = 1
           /\ bb[Len(bb)] = Terminator(orig_block)
           /\ \A k \in 1..(labels.copy_bb_start - 1) : ~instr_is_cti(dup_bb[k])
           /\ match_label_val(dup_bb[labels.copy_bb_start], label_base,
                              DRSTATECMP_LABEL_COPY_BB)
           /\ copy_runs <= 1
           /\ phase = "done"
                => /\ copy_runs = 1
                   /\ compared
                   /\ pc = Len(bb)
                   /\ exit_target = Target(Terminator(orig_block), mc_expected)

C5_Witness ==
    /\ Transformed
    /\ HasTerminator(orig_block)
    /\ Terminator(orig_block).op = "cbz"
    /\ Len(orig_block) > 2
    /\ phase = "done"
    /\ exit_target = "taken"
    /\ start_mc.gpr["r1"] # 0

(***************************************************************************)
(* C6  Fall-through block.  For a side-effect-free block whose last        *)
(* application instruction is no control transfer and no return,           *)
(* drstatecmp_duplicate_bb puts the TERM label immediately behind the last *)
(* application instruction of the clean copy, leaves every instruction of  *)
(* the block in the original copy, and the transformed block holds no      *)
(* control transfer; the compare call therefore stands behind every        *)
(* application instruction of the clean copy.                              *)
(***************************************************************************)
CopyAppPositions(ilist, copy_start) ==
    { k \in (copy_start + 1)..Len(ilist) : instr_is_app(ilist[k]) }

C7_OneRegistration ==
    ~step_failed
        => /\ n_teardown <= n_register
           /\ n_register <= n_teardown + 1
           /\ registered = (IF n_register = n_teardown + 1 THEN AllRegistrations ELSE {})
           /\ last_effect = "register"
                => (last_call = "init" /\ drstatecmp_init_count = 1
                    /\ n_register = n_teardown + 1)
           /\ last_effect = "teardown"
                => (last_call = "exit" /\ drstatecmp_init_count = 0
                    /\ n_register = n_teardown)

\* a second registration after a teardown, then an init that is turned away
C7_Witness ==
    /\ ~step_failed
    /\ n_calls = 5
    /\ n_register = 2
    /\ n_teardown = 1
    /\ last_call = "init"
    /\ last_status = "DRSTATECMP_ERROR_ALREADY_INITIALIZED"
    /\ registered = AllRegistrations

(***************************************************************************)
(* C8  Misuse status.  An exit called while the module is not initialized  *)
(* (the counter is not positive) returns DRSTATECMP_ERROR_NOT_INITIALIZED  *)
(* and unregisters nothing; an init called while the module is initialized *)
(* (the counter is positive) returns DRSTATECMP_ERROR_ALREADY_INITIALIZED  *)
(* and registers nothing.                                                  *)
(***************************************************************************)
IsCall(name) == n_calls' = n_calls + 1 /\ last_call' = name

C8_MisuseStatus ==
    [][ /\ (IsCall("exit") /\ drstatecmp_init_count <= 0)
            => /\ last_status' = "DRSTATECMP_ERROR_NOT_INITIALIZED"
               /\ last_effect' = "none"
               /\ registered' = registered
               /\ n_teardown' = n_teardown
        /\ (IsCall("init") /\ drstatecmp_init_count >= 1)
            => /\ last_status' = "DRSTATECMP_ERROR_ALREADY_INITIALIZED"
               /\ last_effect' = "none"
               /\ registered' = registered
               /\ n_register' = n_register ]_vars

\* exit() on a module that a registration and its teardown left uninitialized
C8_Witness ==
    /\ last_call = "exit"
    /\ last_status = "DRSTATECMP_ERROR_NOT_INITIALIZED"
    /\ drstatecmp_init_count < 0
    /\ n_register = 1
    /\ n_teardown = 1
    /\ n_calls = 4
    /\ ~step_failed

(***************************************************************************)
(* C9  Misuse leaves the module state unchanged.  A call that returns the  *)
(* already-initialized or the not-initialized status leaves the init       *)
(* counter and the registrations as they were before the call.             *)
(***************************************************************************)
C9_MisuseLeavesStateUnchanged ==
    [][ (n_calls' = n_calls + 1
         /\ last_status' \in {"DRSTATECMP_ERROR_ALREADY_INITIALIZED",
                              "DRSTATECMP_ERROR_NOT_INITIALIZED"})
            => /\ drstatecmp_init_count' = drstatecmp_init_count
               /\ registered' = registered ]_vars

(***************************************************************************)
(* C10  Shared registration.                                               *)
(* As claimed: from the first init to the last exit of the users the       *)
(* registrations are in place, and only the last exit tears down.          *)
(* As amended: the registrations are in place exactly while some user is   *)
(* between its init and its exit; an exit tears down exactly when it       *)
(* leaves no user between init and exit, an init registers exactly when it *)
(* is made while no other user is between init and exit.                   *)
(***************************************************************************)
UsersIn == { u \in Users : users[u] = "in" }

Mismatch ==
    \E k \in 1..Len(CmpChecks) :
        FieldOf(saved_state_for_cmp, CmpChecks[k]) # FieldOf(mc_expected, CmpChecks[k])

C14_MismatchByBuild ==
    (compared /\ Mismatch)
        => IF debug_build THEN phase = "aborted" ELSE phase # "aborted"

(***************************************************************************)
(* C15  Protocol order.  The transformed block is, in this order: the save *)
(* for restoration, every instruction of the original copy, the save for   *)
(* comparison, the rollback, every instruction of the clean copy but its   *)
(* terminator, the compare, and the terminator if there is one.  Nothing   *)
(* stands between the save for comparison and the rollback, and nothing    *)
(* but the compare stands behind the last instruction of the clean copy    *)
(* that is no terminator.                                                  *)
(***************************************************************************)
SavePositions(ilist, for_cmp) ==
    { k \in CallPositions(ilist, "drstatecmp_save_state_call") : ilist[k].val = for_cmp }

IsCode(i) == i.op \notin {"label", "call"}

C15_ProtocolOrder ==
    Transformed
        => /\ SavePositions(bb, 0) = {1}
           /\ LabelPositions(bb, DRSTATECMP_LABEL_ORIG_BB) = {2}
           /\ Cardinality(SavePositions(bb, 1)) = 1
           /\ LET s1 == Max(SavePositions(bb, 1))
                  c  == Max(CallPositions(bb, "drstatecmp_compare_state_call"))
              IN  /\ SubSeq(bb, 3, s1 - 1) = BodyOf(orig_block)
                  /\ CallPositions(bb, "drstatecmp_restore_state_call") = {s1 + 1}
                  /\ LabelPositions(bb, DRSTATECMP_LABEL_COPY_BB) = {s1 + 2}
                  /\ CallPositions(bb, "drstatecmp_compare_state_call") = {c}
                  /\ c > s1 + 2
                  /\ \A k \in (s1 + 3)..(c - 1) : IsCode(bb[k]) /\ ~instr_is_cti(bb[k])
                  /\ LabelPositions(bb, DRSTATECMP_LABEL_TERM) = {c + 1}
                  /\ IF HasTerminator(orig_block)
                     THEN Len(bb) = c + 2 /\ bb[c + 2] = Terminator(orig_block)
                     ELSE Len(bb) = c + 1

(***************************************************************************)
(* C16  Content of the clean copy.  Wherever the instrumentation stands in *)
(* the block (first, last, several in a row), after                        *)
(* drstatecmp_duplicate_bb the instructions behind the COPY_BB label are   *)
(* the application instructions of the block in their order plus the TERM  *)
(* label, with no instrumentation among them, and the original copy is the *)
(* block without its terminator.                                           *)
(***************************************************************************)
CleanCopy == SubSeq(dup_bb, labels.copy_bb_start + 1, Len(dup_bb))

C16_CleanCopy ==
    Transformed
        => /\ SelectSeq(CleanCopy, IsCode) = SelectApp(orig_block)
           /\ Cardinality({ k \in 1..Len(CleanCopy) : ~IsCode(CleanCopy[k]) }) = 1
           /\ \E k \in 1..Len(CleanCopy) :
                  match_label_val(CleanCopy[k], label_base, DRSTATECMP_LABEL_TERM)
           /\ SubSeq(dup_bb, 2, labels.copy_bb_start - 1) = BodyOf(orig_block)

(***************************************************************************)
(* C17  Labels.  After drstatecmp_duplicate_bb the block holds one ORIG_BB *)
(* label, one COPY_BB label and one TERM label, in this order; the ORIG_BB *)
(* label stands before the first instruction of the block; and the three   *)
(* pointers of drstatecmp_dup_labels_t are these three labels.             *)
(***************************************************************************)
C17_Labels ==
    Transformed
        => /\ LabelPositions(dup_bb, DRSTATECMP_LABEL_ORIG_BB) = {labels.orig_bb_start}
           /\ LabelPositions(dup_bb, DRSTATECMP_LABEL_COPY_BB) = {labels.copy_bb_start}
           /\ LabelPositions(dup_bb, DRSTATECMP_LABEL_TERM) = {labels.term}
           /\ labels.orig_bb_start = 1
           /\ labels.orig_bb_start < labels.copy_bb_start
           /\ labels.copy_bb_start < labels.term
           /\ { k \in 1..Len(dup_bb) : dup_bb[k].op = "label" }
                  = {labels.orig_bb_start, labels.copy_bb_start, labels.term}

\* a block with instrumentation and a terminator, duplicated: three labels
C17_Witness ==
    /\ Transformed
    /\ HasTerminator(orig_block)
    /\ ~NoInstrumentation(orig_block)
    /\ Len(orig_block) >= 3
    /\ labels.term = Len(dup_bb) - 1
    /\ labels.copy_bb_start > 2

(***************************************************************************)
(* C12  Setup failure is reported.  When, in the init call that registers, *)
(* the reservation of the label notes fails, or the TLS field cannot be    *)
(* allocated, or one of the three event registrations fails, the call      *)
(* does not return DRSTATECMP_SUCCESS, whether DEBUG is defined or not.     *)
(***************************************************************************)
C12_SetupFailureReported ==
    [][ (/\ IsCall("init")
         /\ last_effect' = "register"
         /\ \/ tls_idx' = -1
            \/ label_base' = DRMGR_NOTE_NONE
            \/ registered' # AllRegistrations)
            => last_status' # "DRSTATECMP_SUCCESS" ]_vars

(***************************************************************************)
(* C20  Status against the registrations.  An exit call returns the        *)
(* not-initialized status only if no registration is in place when it is   *)
(* made, and an init call returns the already-initialized status only if   *)
(* a registration is in place when it is made.  (Stated for the calls     *)
(* made while no drmgr step has failed.)                                   *)
(***************************************************************************)
C20_StatusMatchesRegistration ==
    [][ ~step_failed'
          => /\ (IsCall("exit") /\ last_status' = "DRSTATECMP_ERROR_NOT_INITIALIZED")
                   => registered = {}
             /\ (IsCall("init") /\ last_status' = "DRSTATECMP_ERROR_ALREADY_INITIALIZED")
                   => registered # {} ]_vars

(***************************************************************************)
(* C13  Compare coverage and report.  The compare call checks every        *)
(* general-purpose register, the flags, the stack pointer and every SIMD   *)
(* slot of the machine state; it reports nothing exactly when none of them *)
(* differs; otherwise it stops at the first field that differs, in the     *)
(* order of the checks, and its report identifies that field: no other     *)
(* field is reported with the same message.                                *)
(***************************************************************************)
DifferingChecks ==
    { k \in 1..Len(CmpChecks) :
          FieldOf(saved_state_for_cmp, CmpChecks[k]) # FieldOf(mc_expected, CmpChecks[k]) }

ChecksReportedAs(msg) == { k \in 1..Len(CmpChecks) : CmpChecks[k].name = msg }

C13_CompareReport ==
    compared
        => /\ \A r \in GprNames :
                  \E k \in 1..Len(CmpChecks) :
                      CmpChecks[k].kind = "gpr" /\ CmpChecks[k].name = r
           /\ \E k \in 1..Len(CmpChecks) : CmpChecks[k].kind = "xflags"
           /\ \E k \in 1..Len(CmpChecks) : CmpChecks[k].kind = "xsp"
           /\ \A i \in SimdSlots :
                  \E k \in 1..Len(CmpChecks) :
                      CmpChecks[k].kind = "simd" /\ CmpChecks[k].slot = i
           /\ (DifferingChecks = {}) <=> (reported = "none")
           /\ (DifferingChecks # {})
                  => /\ phase = "aborted"
                     /\ ChecksReportedAs(reported) = {Min(DifferingChecks)}

(***************************************************************************)
(* C18  Gating.  drstatecmp_post_instru_phase enters the duplication and   *)
(* the insertion of the clean calls exactly for the blocks none of whose   *)
(* application instructions writes memory, is an interrupt or is a system  *)
(* call; a block with such an application instruction is left exactly as   *)
(* it was; what the instrumentation instructions of the block do plays no  *)
(* part in the decision.                                                   *)
(***************************************************************************)
AppSideEffect(block) ==
    \E k \in 1..Len(block) : block[k].app /\ block[k].op \in {"str", "int", "svc"}

Duplicated ==
    /\ dup_bb # <<>>
    /\ labels # NoLabels
    /\ bb = drstatecmp_check_reexecution(dup_bb, labels)
    /\ Cardinality({ k \in 1..Len(bb) : bb[k].op = "call" }) = 4
    /\ Cardinality({ k \in 1..Len(bb) : bb[k].op = "label" }) = 3

C18_Gating ==
    (phase # "bb_event")
        => IF AppSideEffect(orig_block)
           THEN bb = orig_block /\ dup_bb = <<>> /\ labels = NoLabels /\ phase # "crashed"
           ELSE phase = "crashed" \/ Duplicated

\* a block whose only store and system call are instrumentation: transformed
C18_Witness ==
    /\ phase = "exec"
    /\ Duplicated
    /\ \E k \in 1..Len(orig_block) : ~orig_block[k].app /\ orig_block[k].op = "str"
    /\ \E k \in 1..Len(orig_block) : ~orig_block[k].app /\ orig_block[k].op = "svc"
    /\ \E k \in 1..Len(orig_block) : orig_block[k].app

(***************************************************************************)
(* C11  No partial registration under concurrent calls.  For every         *)
(* interleaving of the steps of drstatecmp_init and drstatecmp_exit calls  *)
(* made by different threads: whenever a call has returned and no call is  *)
(* in progress, either the TLS field and the three callbacks are all       *)
(* registered or none of them is, and they are registered exactly when the *)
(* counter is at least 1; and no init call returns the already-initialized *)
(* status while the init call that registers has not finished registering. *)
(***************************************************************************)
Quiescent == \A p \in Callers : callers[p].at = "idle"

Registering == { p \in Callers : callers[p].at \in {"init_guard", "registering"} }

ReturnsFrom(p, status) ==
    /\ callers[p].at # "idle"
    /\ callers'[p].at = "idle"
    /\ callers'[p].status = status

C11_NoPartialRegistration ==
    [][ /\ (Quiescent' /\ n_calls' > 0)
              => /\ registered' \in {{}, AllRegistrations}
                 /\ (registered' = AllRegistrations) <=> (drstatecmp_init_count' >= 1)
        /\ \A p \in Callers :
               ReturnsFrom(p, "DRSTATECMP_ERROR_ALREADY_INITIALIZED")
                   => Registering \ {p} = {} ]_vars

(***************************************************************************)
(* C19  Per-thread snapshots.  A thread's pair of snapshots does not exist *)
(* before the thread starts, is allocated and zero-filled when it starts   *)
(* and is freed once when it leaves.  In every interleaving of threads     *)
(* running the transformed block, the pair of a running thread is          *)
(* allocated, is no other running thread's pair and holds what the         *)
(* thread's own save calls stored; so the snapshot a thread's compare call *)
(* reads is the one the thread's latest save for comparison stored, and    *)
(* the compare call of a thread running a clean block reports nothing.     *)
(***************************************************************************)
ComparePosition ==
    Max({ k \in 1..Len(ThreadCode) : ThreadCode[k].dst = "drstatecmp_compare_state_call" })

C19_PerThreadSnapshots ==
    \A t \in Threads :
        LET th == threads[t]
        IN  /\ th.state # "aborted"
            /\ th.state = "unborn" => (th.pt = 0 /\ th.frees = 0)
            /\ th.state = "running"
                  => /\ th.pt \in Addrs
                     /\ heap[th.pt] = th.wrote
                     /\ th.frees = 0
                     /\ th.pc = 1 => heap[th.pt] = ZeroPair
                     /\ \A u \in Threads \ {t} :
                            threads[u].state = "running" => threads[u].pt # th.pt
            /\ th.state = "exited"
                  => /\ th.frees = 1
                     /\ \/ ~heap[th.pt].allocated
                        \/ \E u \in Threads \ {t} :
                               threads[u].state = "running" /\ threads[u].pt = th.pt
            /\ th.pc > ComparePosition
                  => /\ th.read = th.wrote.saved_state_for_cmp
                     /\ th.reported = "none"

\* thread 2 has compared after thread 1 stored a different snapshot for
\* comparison and before thread 1 has compared
C19_Witness ==
    /\ threads[1].state = "running"
    /\ threads[2].state = "running"
    /\ threads[2].pc > ComparePosition
    /\ threads[1].pc = ComparePosition
    /\ threads[1].wrote.saved_state_for_cmp # threads[2].wrote.saved_state_for_cmp
    /\ threads[1].wrote.saved_state_for_cmp # ZeroMc

(***************************************************************************)
(* C21  No absent-instruction access.  For every block that                *)
(* drstatecmp_post_instru_phase takes for side-effect-free, a block        *)
(* without application instruction included, drstatecmp_duplicate_bb has a *)
(* first instruction to put the ORIG_BB label before and a last            *)
(* application instruction in the clone and in the original: it neither    *)
(* queries nor inserts relative to a NULL instruction, and so does not     *)
(* fault on one.                                                           *)
(***************************************************************************)
C21_NoAbsentInstruction ==
    (phase # "bb_event" /\ SideEffectFree(orig_block))
        => /\ \A dangling \in DanglingNext :
                  AbsentInstrUses(orig_block, label_base, dangling) = {}
           /\ phase = "crashed"
                  => \E dangling \in DanglingNext :
                         StripMeta(orig_block, 1, dangling).fault

====
